---- MODULE Spec2Model ----
(***************************************************************************)
(* Model of the MovieReviewsModelRunner adapters of the DIANNA text        *)
(* tutorials (tutorials/lime_text.ipynb and tutorials/rise_text.ipynb).    *)
(*                                                                         *)
(* A sentence is a sequence of one-character strings, a token is a         *)
(* sequence of characters, probabilities are fixed-point numbers with      *)
(* One standing for 1.0.  The tokenizer, the vocabulary file, the expit    *)
(* function and the scoring function are collaborators that live outside   *)
(* the tutorials; they are modelled by what the adapter relies on.         *)
(***************************************************************************)
EXTENDS Integers, Sequences, FiniteSets, TLC

\* ---------------------------------------------------------------- bounds
MaxSentenceLen == 4     \* characters per sentence
MaxBatch == 2           \* sentences per call
MaxFilterSize == 3      \* largest max_filter_size given to the constructor

\* fixed-point representation of the literal 1 in "1 - positivity"
One == 1000

\* ------------------------------------------------------- data of the model
Chars == {"a", " "}

UNK == <<"<", "u", "n", "k", ">">>
PAD == <<"<", "p", "a", "d", ">">>

\* vocab.stoi as loaded by Vectors(word_vectors): token -> index, with the
\* reserved unknown and padding entries
Stoi == (UNK :> 0) @@ (PAD :> 1) @@ (<<"a">> :> 2) @@ (<<"a", "a">> :> 3)

RECURSIVE StringsOfLen(_)
StringsOfLen(n) ==
    IF n = 0 THEN {<<>>}
    ELSE {Append(s, c) : s \in StringsOfLen(n - 1), c \in Chars}

Strings == UNION {StringsOfLen(n) : n \in 0..MaxSentenceLen}

RECURSIVE BatchesOfLen(_)
BatchesOfLen(n) ==
    IF n = 0 THEN {<<>>}
    ELSE {Append(b, s) : b \in BatchesOfLen(n - 1), s \in Strings}

Batches == UNION {BatchesOfLen(n) : n \in 0..MaxBatch}

\* what a caller can pass to __call__: a str or a list of str
Inputs == [kind : {"str"}, val : Strings] \cup [kind : {"list"}, val : Batches]

\* ------------------------------------------------------------ collaborators
\* self.tokenizer: splits a sentence at blanks
RECURSIVE SplitFrom(_, _, _, _)
SplitFrom(s, k, cur, acc) ==
    IF k > Len(s)
    THEN (IF cur = <<>> THEN acc ELSE Append(acc, cur))
    ELSE IF s[k] = " "
         THEN SplitFrom(s, k + 1, <<>>, IF cur = <<>> THEN acc ELSE Append(acc, cur))
         ELSE SplitFrom(s, k + 1, Append(cur, s[k]), acc)

tokenizer(s) == SplitFrom(s, 1, <<>>, <<>>)

\* scipy.special.expit on an integer logit, rounded to 1/One
SigmoidPos(x) ==
    CASE x = 0 -> 500
      [] x = 1 -> 731
      [] x = 2 -> 881
      [] x = 3 -> 953
      [] x = 4 -> 982
      [] x = 5 -> 993
      [] x = 6 -> 998
      [] x = 7 -> 999
      [] OTHER -> One

sigmoid(x) == IF x >= 0 THEN SigmoidPos(x) ELSE One - SigmoidPos(0 - x)

\* the scoring functions utils.get_function(model) can return: one raw logit
\* per numericalized sequence, a bias plus one weight per vocabulary index
ScoringModels ==
    { [bias |-> 0 - 1, w |-> <<0 - 2, 0, 1, 3>>],
      [bias |-> 0,     w |-> <<9, 0 - 4, 0 - 1, 2>>] }

RECURSIVE WeightSum(_, _)
WeightSum(seq, w) ==
    IF seq = <<>> THEN 0 ELSE w[Head(seq) + 1] + WeightSum(Tail(seq), w)

Logit(seq, m) == m.bias + WeightSum(seq, m.w)

\* run_model(batch): an N x 1 array of logits
run_model(batch, m) == [k \in 1..Len(batch) |-> <<Logit(batch[k], m)>>]

\* ------------------------------------------------- the steps of __call__
\* the argument iterated as it comes, without the isinstance test: iterating
\* a str yields its characters
NormalizeNoBatchAxis(a) ==
    IF a.kind = "str" THEN [k \in 1..Len(a.val) |-> <<a.val[k]>>] ELSE a.val

\* "if isinstance(sentences, str): sentences = [sentences]"
Normalize(a) == IF a.kind = "str" THEN <<a.val>> ELSE a.val

\* padding that comes out one element short
PadTokensOneShort(tokens, mfs) ==
    IF Len(tokens) < mfs
    THEN tokens \o [k \in 1..(mfs - Len(tokens) - 1) |-> PAD]
    ELSE tokens

\* padding put in front of the tokens
PadTokensLeft(tokens, mfs) ==
    IF Len(tokens) < mfs
    THEN [k \in 1..(mfs - Len(tokens)) |-> PAD] \o tokens
    ELSE tokens

\* no padding at all
PadTokensNone(tokens, mfs) == tokens

\* padding that also cuts longer sentences to the minimum length
PadTokensTruncate(tokens, mfs) ==
    IF Len(tokens) < mfs
    THEN tokens \o [k \in 1..(mfs - Len(tokens)) |-> PAD]
    ELSE SubSeq(tokens, 1, mfs)

\* "if len(tokens) < self.max_filter_size: tokens += ['<pad>'] * (...)"
PadTokens(tokens, mfs) ==
    IF Len(tokens) < mfs
    THEN tokens \o [k \in 1..(mfs - Len(tokens)) |-> PAD]
    ELSE tokens

\* a plain lookup "[stoi[token] for token in tokens]": KeyError on unseen words
NumericalizeNoFallback(tokens, stoi) ==
    IF \E k \in 1..Len(tokens) : tokens[k] \notin DOMAIN stoi
    THEN [raised |-> TRUE, val |-> <<>>]
    ELSE [raised |-> FALSE, val |-> [k \in 1..Len(tokens) |-> stoi[tokens[k]]]]

\* every token looked up by its first character only
NumericalizeFirstChar(tokens, stoi) ==
    [raised |-> FALSE,
     val |-> [k \in 1..Len(tokens) |->
                 IF tokens[k] = PAD THEN stoi[PAD]
                 ELSE IF <<tokens[k][1]>> \in DOMAIN stoi THEN stoi[<<tokens[k][1]>>]
                 ELSE stoi[UNK]]]

\* "[stoi[token] if token in stoi else stoi['<unk>'] for token in tokens]";
\* stoi['<unk>'] raises KeyError when the vocabulary has no such entry
Numericalize(tokens, stoi) ==
    IF (\E k \in 1..Len(tokens) : tokens[k] \notin DOMAIN stoi) /\ UNK \notin DOMAIN stoi
    THEN [raised |-> TRUE, val |-> <<>>]
    ELSE [raised |-> FALSE,
          val |-> [k \in 1..Len(tokens) |->
                      IF tokens[k] \in DOMAIN stoi THEN stoi[tokens[k]] ELSE stoi[UNK]]]

\* the logits taken as probabilities, without the sigmoid
LimePositivityNoSigmoid(lg) == [k \in 1..Len(lg) |-> lg[k][1] * One]

\* lime: "pred = np.apply_along_axis(sigmoid, 1, logits); positivity = pred[:, 0]"
LimePositivity(lg) == [k \in 1..Len(lg) |-> sigmoid(lg[k][1])]

\* the logit taken as the probability, without the sigmoid
RisePredRaw(lg) == lg[1][1] * One

\* rise: "pred = float(sigmoid(self.run_model([tokens_numerical])))"
RisePred(lg) == sigmoid(lg[1][1])

\* rows returned in reverse order
TwoClassesReversed(positivity) ==
    [k \in 1..Len(positivity) |->
        <<One - positivity[Len(positivity) + 1 - k], positivity[Len(positivity) + 1 - k]>>]

\* columns in the order (positivity, negativity)
TwoClassesSwapped(positivity) ==
    [k \in 1..Len(positivity) |-> <<positivity[k], One - positivity[k]>>]

\* "negativity = - positivity"
TwoClassesNoComplement(positivity) ==
    [k \in 1..Len(positivity) |-> <<0 - positivity[k], positivity[k]>>]

\* "negativity = 1 - positivity; return np.transpose([negativity, positivity])"
TwoClasses(positivity) ==
    [k \in 1..Len(positivity) |-> <<One - positivity[k], positivity[k]>>]

\* the loop of either adapter on a list of sentences: one numericalization
\* per sentence, in order
NumericalizeAll(sents, mfs, stoi) ==
    [k \in 1..Len(sents) |-> Numericalize(PadTokens(tokenizer(sents[k]), mfs), stoi)]

\* __call__ of the batch adapter as a whole: how the call ends and what it returns
LimeCall(a, mfs, stoi, m) ==
    LET nums == NumericalizeAll(Normalize(a), mfs, stoi)
        batch == [k \in 1..Len(nums) |-> nums[k].val]
    IN  IF \E k \in 1..Len(nums) : nums[k].raised
        THEN [exc |-> "KeyError", result |-> <<>>]
        ELSE IF Len(batch) = 0
             THEN [exc |-> "ValueError", result |-> <<>>]
             ELSE [exc |-> "none",
                   result |-> TwoClasses(LimePositivity(run_model(batch, m)))]

\* __call__ of the per-sentence adapter as a whole
RiseCall(a, mfs, stoi, m) ==
    LET nums == NumericalizeAll(Normalize(a), mfs, stoi)
    IN  IF \E k \in 1..Len(nums) : nums[k].raised
        THEN [exc |-> "KeyError", result |-> <<>>]
        ELSE [exc |-> "none",
              result |-> TwoClasses([k \in 1..Len(nums) |->
                                        RisePred(run_model(<<nums[k].val>>, m))])]

\* ------------------------------------------------------------------- state
VARIABLES
    adapter,              \* "lime" (batch) or "rise" (per sentence)
    vocab,                \* self.vocab.stoi
    max_filter_size,      \* self.max_filter_size
    scorer,               \* self.run_model
    pc,                   \* position of __call__
    exc,                  \* the exception the call ended with, or "none"
    arg,                  \* the caller's argument object
    sentences,            \* the local variable sentences
    i,                    \* 1-based index of the next sentence of the loop
    padded,               \* the value of tokens after padding, per sentence
    tokenized_sentences,  \* numericalized sequences, per sentence
    calls,                \* batches handed to run_model during this call
    logits,               \* one logit row per scored sequence
    output,               \* rise: the list output
    result,               \* the returned matrix
    review,               \* the text given to dianna.explain_text
    explanation_importance_map   \* the importance map explain_text returned

vars == <<adapter, vocab, max_filter_size, scorer, pc, exc, arg, sentences, i,
          padded, tokenized_sentences, calls, logits, output, result,
          review, explanation_importance_map>>

explained == <<review, explanation_importance_map>>

config == <<adapter, vocab, max_filter_size, scorer>>

\* __init__
Init ==
    /\ adapter \in {"lime", "rise"}
    /\ vocab = Stoi
    /\ max_filter_size \in 1..MaxFilterSize
    /\ scorer \in ScoringModels
    /\ pc = "idle"
    /\ exc = "none"
    /\ arg = [kind |-> "list", val |-> <<>>]
    /\ sentences = <<>>
    /\ i = 1
    /\ padded = <<>>
    /\ tokenized_sentences = <<>>
    /\ calls = <<>>
    /\ logits = <<>>
    /\ output = <<>>
    /\ result = <<>>
    /\ review = <<>>
    /\ explanation_importance_map = <<>>

\* entry of __call__: normalise the argument, start the loop
Call(a) ==
    /\ pc = "idle"
    /\ arg' = a
    /\ sentences' = Normalize(a)
    /\ i' = 1
    /\ padded' = <<>>
    /\ tokenized_sentences' = <<>>
    /\ calls' = <<>>
    /\ logits' = <<>>
    /\ output' = <<>>
    /\ result' = <<>>
    /\ pc' = "loop"
    /\ UNCHANGED <<config, exc>>
    /\ UNCHANGED explained

\* an iteration of the batch adapter that scores what it has so far
LimeIterationScoresEarly ==
    /\ adapter = "lime"
    /\ pc = "loop"
    /\ i <= Len(sentences)
    /\ LET tokens == PadTokens(tokenizer(sentences[i]), max_filter_size)
           num == Numericalize(tokens, vocab)
       IN  /\ padded' = Append(padded, tokens)
           /\ tokenized_sentences' = Append(tokenized_sentences, num.val)
           /\ calls' = Append(calls, tokenized_sentences')
           /\ i' = i + 1
           /\ pc' = "loop"
    /\ UNCHANGED <<config, exc, arg, sentences, logits, output, result>>
    /\ UNCHANGED explained

\* an iteration of the batch adapter that stores unseen words in the vocabulary
LimeIterationLearnsWords ==
    /\ adapter = "lime"
    /\ pc = "loop"
    /\ i <= Len(sentences)
    /\ LET tokens == PadTokens(tokenizer(sentences[i]), max_filter_size)
           num == Numericalize(tokens, vocab)
           unseen == {tokens[k] : k \in 1..Len(tokens)} \ DOMAIN vocab
       IN  /\ padded' = Append(padded, tokens)
           /\ tokenized_sentences' = Append(tokenized_sentences, num.val)
           /\ vocab' = vocab @@ [t \in unseen |-> vocab[UNK]]
           /\ i' = i + 1
           /\ pc' = "loop"
    /\ UNCHANGED <<adapter, max_filter_size, scorer, exc, arg, sentences, calls,
                   logits, output, result>>
    /\ UNCHANGED explained

\* an iteration of the batch adapter that pads to the longest sequence so far
LimeIterationPadsToLongest ==
    /\ adapter = "lime"
    /\ pc = "loop"
    /\ i <= Len(sentences)
    /\ LET longest == IF i = 1 THEN max_filter_size ELSE Len(tokenized_sentences[i - 1])
           width == IF longest > max_filter_size THEN longest ELSE max_filter_size
           tokens == PadTokens(tokenizer(sentences[i]), width)
           num == Numericalize(tokens, vocab)
       IN  /\ padded' = Append(padded, tokens)
           /\ tokenized_sentences' = Append(tokenized_sentences, num.val)
           /\ i' = i + 1
           /\ pc' = "loop"
    /\ UNCHANGED <<config, exc, arg, sentences, calls, logits, output, result>>
    /\ UNCHANGED explained

\* one iteration of the loop of the batch adapter
LimeIteration ==
    /\ adapter = "lime"
    /\ pc = "loop"
    /\ i <= Len(sentences)
    /\ LET tokens == PadTokens(tokenizer(sentences[i]), max_filter_size)
           num == Numericalize(tokens, vocab)
       IN  /\ padded' = Append(padded, tokens)
           /\ IF num.raised
              THEN /\ pc' = "raised"
                   /\ exc' = "KeyError"
                   /\ UNCHANGED <<tokenized_sentences, i>>
              ELSE /\ tokenized_sentences' = Append(tokenized_sentences, num.val)
                   /\ i' = i + 1
                   /\ pc' = "loop"
                   /\ UNCHANGED exc
    /\ UNCHANGED <<config, arg, sentences, calls, logits, output, result>>
    /\ UNCHANGED explained

\* after the loop of the batch adapter: score the batch, post-process, return;
\* np.apply_along_axis raises ValueError on an array without rows
LimeInference ==
    /\ adapter = "lime"
    /\ pc = "loop"
    /\ i > Len(sentences)
    /\ calls' = Append(calls, tokenized_sentences)
    /\ logits' = run_model(tokenized_sentences, scorer)
    /\ IF Len(tokenized_sentences) = 0
       THEN /\ pc' = "raised"
            /\ exc' = "ValueError"
            /\ UNCHANGED result
       ELSE /\ result' = TwoClasses(LimePositivity(logits'))
            /\ pc' = "done"
            /\ UNCHANGED exc
    /\ UNCHANGED <<config, arg, sentences, i, padded, tokenized_sentences, output>>
    /\ UNCHANGED explained

\* an iteration of the per-sentence adapter that scores all sequences so far
RiseIterationScoresPrefix ==
    /\ adapter = "rise"
    /\ pc = "loop"
    /\ i <= Len(sentences)
    /\ LET tokens == PadTokens(tokenizer(sentences[i]), max_filter_size)
           num == Numericalize(tokens, vocab)
           lg == run_model(Append(tokenized_sentences, num.val), scorer)
       IN  /\ padded' = Append(padded, tokens)
           /\ tokenized_sentences' = Append(tokenized_sentences, num.val)
           /\ calls' = Append(calls, tokenized_sentences')
           /\ logits' = Append(logits, lg[Len(lg)])
           /\ output' = Append(output, sigmoid(lg[Len(lg)][1]))
           /\ i' = i + 1
           /\ pc' = "loop"
    /\ UNCHANGED <<config, exc, arg, sentences, result>>
    /\ UNCHANGED explained

\* one iteration of the loop of the per-sentence adapter
RiseIteration ==
    /\ adapter = "rise"
    /\ pc = "loop"
    /\ i <= Len(sentences)
    /\ LET tokens == PadTokens(tokenizer(sentences[i]), max_filter_size)
           num == Numericalize(tokens, vocab)
           lg == run_model(<<num.val>>, scorer)
       IN  /\ padded' = Append(padded, tokens)
           /\ IF num.raised
              THEN /\ pc' = "raised"
                   /\ exc' = "KeyError"
                   /\ UNCHANGED <<tokenized_sentences, calls, logits, output, i>>
              ELSE /\ tokenized_sentences' = Append(tokenized_sentences, num.val)
                   /\ calls' = Append(calls, <<num.val>>)
                   /\ logits' = logits \o lg
                   /\ output' = Append(output, RisePred(lg))
                   /\ i' = i + 1
                   /\ pc' = "loop"
                   /\ UNCHANGED exc
    /\ UNCHANGED <<config, arg, sentences, result>>
    /\ UNCHANGED explained

\* after the loop of the per-sentence adapter: build the two columns, return
RiseReturn ==
    /\ adapter = "rise"
    /\ pc = "loop"
    /\ i > Len(sentences)
    /\ result' = TwoClasses(output)
    /\ pc' = "done"
    /\ UNCHANGED <<config, exc, arg, sentences, i, padded, tokenized_sentences,
                   calls, logits, output>>
    /\ UNCHANGED explained

\* signed importance scores the attribution method can give a token
Importances == {0 - 1, 0, 1}

\* the tokens of a text with the 0-based character offset each starts at
RECURSIVE SpansFrom(_, _, _, _, _)
SpansFrom(s, k, cur, start, acc) ==
    LET flushed == IF cur = <<>> THEN acc
                   ELSE Append(acc, [word |-> cur, location |-> start])
    IN  IF k > Len(s) THEN flushed
        ELSE IF s[k] = " " THEN SpansFrom(s, k + 1, <<>>, k, flushed)
        ELSE SpansFrom(s, k + 1, Append(cur, s[k]), IF cur = <<>> THEN k - 1 ELSE start, acc)

\* locations given as the position of the token among the tokens
TokenSpansByIndex(s) ==
    LET t == tokenizer(s)
    IN  [k \in 1..Len(t) |-> [word |-> t[k], location |-> k - 1]]

TokenSpans(s) == SpansFrom(s, 1, <<>>, 0, <<>>)

\* the orders explain_text returns the triples in: text order for RISE, an
\* order by importance for LIME
TripleOrders(n) ==
    IF adapter = "lime" THEN Permutations(1..n) ELSE {[k \in 1..n |-> k]}

\* dianna.explain_text(model_runner, review, method, labels=[label])[0]: one
\* (word, location, importance) triple per token of the text
explain_text(text) ==
    /\ pc = "idle"
    /\ review' = text
    /\ LET spans == TokenSpans(text)
           n == Len(spans)
       IN  \E imp \in [1..n -> Importances] : \E order \in TripleOrders(n) :
              explanation_importance_map' =
                  [k \in 1..n |->
                      <<spans[order[k]].word, spans[order[k]].location, imp[order[k]]>>]
    /\ pc' = "explained"
    /\ UNCHANGED <<config, exc, arg, sentences, i, padded, tokenized_sentences,
                   calls, logits, output, result>>

\* the call is over (returned or raised): its locals and its result are
\* dropped by the caller, the adapter is ready for the next call
Release ==
    /\ pc \in {"done", "raised", "explained"}
    /\ pc' = "idle"
    /\ exc' = "none"
    /\ arg' = [kind |-> "list", val |-> <<>>]
    /\ sentences' = <<>>
    /\ i' = 1
    /\ padded' = <<>>
    /\ tokenized_sentences' = <<>>
    /\ calls' = <<>>
    /\ logits' = <<>>
    /\ output' = <<>>
    /\ result' = <<>>
    /\ review' = <<>>
    /\ explanation_importance_map' = <<>>
    /\ UNCHANGED config

Next ==
    \/ (pc = "idle" /\ \E a \in Inputs : Call(a))
    \/ LimeIteration
    \/ LimeInference
    \/ RiseIteration
    \/ RiseReturn
    \/ (\E text \in Strings : explain_text(text))
    \/ Release

Spec == Init /\ [][Next]_vars

TypeOK ==
    /\ adapter \in {"lime", "rise"}
    /\ max_filter_size \in 1..MaxFilterSize
    /\ pc \in {"idle", "loop", "done", "raised", "explained"}
    /\ exc \in {"none", "KeyError", "ValueError"}
    /\ (exc # "none") <=> (pc = "raised")
    /\ i \in 1..(Len(sentences) + 1)
    /\ Len(padded) \in {i - 1, i}
    /\ Len(tokenized_sentences) = i - 1

\* ------------------------------------------------------------ properties
\* number of tokens the tokenizer finds in the k-th sentence of the call
NumTokens(k) == Len(tokenizer(sentences[k]))

\* vocabulary index a token is expected to get
ExpectedIndex(token) == IF token \in DOMAIN vocab THEN vocab[token] ELSE vocab[UNK]

\* the sequence a sentence is expected to be scored on
ExpectedSequence(s) ==
    LET t == tokenizer(s)
        len == IF Len(t) < max_filter_size THEN max_filter_size ELSE Len(t)
    IN  [j \in 1..len |-> IF j <= Len(t) THEN ExpectedIndex(t[j]) ELSE vocab[PAD]]

\* the score pair (negativity, positivity) of a sentence
ScorePair(s) ==
    LET p == sigmoid(Logit(ExpectedSequence(s), scorer))
    IN  <<One - p, p>>

\* C1: a call on a batch of N >= 1 sentences returns N rows of 2 columns, and
\* row k is the score pair of the k-th sentence of the argument, in input order.
C1_BatchRowsInInputOrder ==
    (pc = "done" /\ arg.kind = "list" /\ Len(arg.val) >= 1) =>
        /\ Len(result) = Len(arg.val)
        /\ \A k \in 1..Len(arg.val) :
              /\ Len(result[k]) = 2
              /\ result[k] = ScorePair(arg.val[k])

C1_Witness ==
    /\ pc = "done"
    /\ arg.kind = "list"
    /\ Len(arg.val) = MaxBatch
    /\ Len(result) = MaxBatch
    /\ result[1] # result[MaxBatch]

\* C2: a call on a single string s handles s as a batch of one: one sentence,
\* the whole string, is tokenized and scored, and the result is the one row
\* that the call on the list [s] returns.
C2_StringIsBatchOfOne ==
    (arg.kind = "str" /\ pc # "idle") =>
        /\ sentences = <<arg.val>>
        /\ Len(padded) <= 1
        /\ \A k \in 1..Len(padded) : padded[k] = PadTokens(tokenizer(arg.val), max_filter_size)
        /\ pc = "done" => result = <<ScorePair(arg.val)>>

C2_Witness ==
    /\ pc = "done"
    /\ arg.kind = "str"
    /\ Len(arg.val) >= 3
    /\ NumTokens(1) = 2
    /\ Len(result) = 1

\* C3: numericalization raises no KeyError, and every position whose token is
\* not a key of the vocabulary holds the index of the token <unk>.
C3_UnseenWordsMapToUnk ==
    /\ exc # "KeyError"
    /\ \A k \in 1..Len(tokenized_sentences) :
          /\ Len(tokenized_sentences[k]) = Len(padded[k])
          /\ \A j \in 1..Len(padded[k]) :
                padded[k][j] \notin DOMAIN vocab => tokenized_sentences[k][j] = vocab[UNK]

C3_Witness ==
    /\ pc = "done"
    /\ \E k \in 1..Len(tokenized_sentences) : \E j \in 1..Len(padded[k]) :
          /\ padded[k][j] \notin DOMAIN vocab
          /\ tokenized_sentences[k][j] = vocab[UNK]

\* C4: a sentence with fewer tokens than max_filter_size, the sentence without
\* tokens included, is numericalized from a token sequence of exactly
\* max_filter_size elements.
C4_ShortSentencesPaddedToMinimum ==
    \A k \in 1..Len(padded) :
        NumTokens(k) < max_filter_size => Len(padded[k]) = max_filter_size

C4_Witness ==
    /\ max_filter_size >= 2
    /\ \E k \in 1..Len(tokenized_sentences) :
          NumTokens(k) = 0 /\ Len(padded[k]) = max_filter_size
    /\ \E k \in 1..Len(tokenized_sentences) :
          NumTokens(k) = 1 /\ Len(padded[k]) = max_filter_size

\* C5: for a sentence with n < max_filter_size tokens the numericalized sequence
\* is the indices of the n tokens in their order, followed by
\* max_filter_size - n times the index of <pad>.
C5_RightPaddingWithPadIndex ==
    \A k \in 1..Len(tokenized_sentences) :
        NumTokens(k) < max_filter_size =>
            /\ Len(tokenized_sentences[k]) = max_filter_size
            /\ \A j \in 1..NumTokens(k) :
                  tokenized_sentences[k][j] = ExpectedIndex(tokenizer(sentences[k])[j])
            /\ \A j \in (NumTokens(k) + 1)..max_filter_size :
                  tokenized_sentences[k][j] = vocab[PAD]

C5_Witness ==
    /\ max_filter_size >= 3
    /\ \E k \in 1..Len(tokenized_sentences) :
          /\ NumTokens(k) = 1
          /\ tokenized_sentences[k][1] # vocab[PAD]
          /\ tokenized_sentences[k][max_filter_size] = vocab[PAD]

\* C6: every numericalized sequence handed to the scoring function, in any
\* call, has at least max_filter_size elements.
C6_ScoredSequencesReachMinimum ==
    \A c \in 1..Len(calls) : \A k \in 1..Len(calls[c]) :
        Len(calls[c][k]) >= max_filter_size

C6_Witness ==
    /\ max_filter_size >= 2
    /\ \E c \in 1..Len(calls) : \E k \in 1..Len(calls[c]) :
          Len(calls[c][k]) = max_filter_size
    /\ \E k \in 1..Len(tokenized_sentences) : NumTokens(k) < max_filter_size

\* C7: a sentence with n >= max_filter_size tokens is neither padded nor
\* truncated: its tokens go unchanged into numericalization and its
\* numericalized sequence has exactly n elements.
C7_LongSentencesKeepTheirTokens ==
    \A k \in 1..Len(tokenized_sentences) :
        NumTokens(k) >= max_filter_size =>
            /\ padded[k] = tokenizer(sentences[k])
            /\ Len(tokenized_sentences[k]) = NumTokens(k)

C7_Witness ==
    \E k \in 1..Len(tokenized_sentences) :
        /\ NumTokens(k) > max_filter_size
        /\ Len(tokenized_sentences[k]) = NumTokens(k)

\* C8: in every row of the returned matrix column 1 (the second entry) is the
\* sigmoid of the logit the scoring function returned for that sentence, and
\* column 0 (the first entry) is 1 minus column 1.
C8_ColumnsAreNegativePositive ==
    pc = "done" =>
        /\ Len(logits) = Len(result)
        /\ \A k \in 1..Len(result) :
              /\ logits[k] = <<Logit(tokenized_sentences[k], scorer)>>
              /\ result[k][2] = sigmoid(logits[k][1])
              /\ result[k][1] = One - result[k][2]

C8_Witness ==
    /\ pc = "done"
    /\ \E k \in 1..Len(result) : result[k][2] > result[k][1]
    /\ \E k \in 1..Len(result) : result[k][2] < result[k][1]

\* C9: every row of the returned matrix sums to 1, and the call on a single
\* string returns one such row.
C9_RowsSumToOne ==
    pc = "done" =>
        /\ \A k \in 1..Len(result) : result[k][1] + result[k][2] = One
        /\ arg.kind = "str" => Len(result) = 1

C9_Witness ==
    /\ pc = "done"
    /\ arg.kind = "str"
    /\ Len(result) = 1
    /\ result[1][1] \notin {0, One}
    /\ result[1][1] + result[1][2] = One

\* C10: every entry of the returned matrix lies in the closed interval [0, 1].
C10_EntriesAreProbabilities ==
    \A k \in 1..Len(result) : \A c \in 1..2 :
        0 <= result[k][c] /\ result[k][c] <= One

C10_Witness ==
    /\ pc = "done"
    /\ \E k \in 1..Len(result) : result[k][2] = One /\ result[k][1] = 0
    /\ \E k \in 1..Len(result) : result[k][2] \notin {0, One}

\* the batch of numericalized sequences of all sentences of the call
ExpectedBatch == [k \in 1..Len(sentences) |-> ExpectedSequence(sentences[k])]

\* C11 (as stated): every call, of either adapter, invokes the scoring function
\* exactly once, after all sentences are numericalized, with all sequences in
\* input order.
C11_OneInvocationPerCall ==
    /\ Len(calls) <= 1
    /\ Len(calls) = 1 => (i > Len(sentences) /\ calls[1] = ExpectedBatch)
    /\ pc = "done" => Len(calls) = 1

\* C11 (amended): a call of the batch adapter invokes the scoring function
\* exactly once, after all sentences are tokenized, padded and numericalized,
\* with all sequences in input order.
C11_LimeOneInvocationPerCall ==
    adapter = "lime" =>
        /\ Len(calls) <= 1
        /\ Len(calls) = 1 =>
              /\ i > Len(sentences)
              /\ Len(padded) = Len(sentences)
              /\ calls[1] = ExpectedBatch
        /\ pc = "done" => Len(calls) = 1

C11_Witness ==
    /\ adapter = "lime"
    /\ pc = "done"
    /\ Len(sentences) = MaxBatch
    /\ Len(calls) = 1
    /\ calls[1][1] # calls[1][MaxBatch]

\* C12: no step of a call changes the vocabulary, max_filter_size or the scoring
\* function (the tokenizer is a fixed operator of the model), whether the call
\* returns or raises, and the caller's argument stays as it was passed: a list
\* argument is the list the loop iterates over, and it is never modified.
C12_CallLeavesAdapterAndArgumentUnchanged ==
    [][ /\ vocab' = vocab
        /\ max_filter_size' = max_filter_size
        /\ scorer' = scorer
        /\ (pc # "idle" /\ pc' # "idle") => arg' = arg
        /\ (pc' # "idle" /\ arg'.kind = "list") => sentences' = arg'.val ]_vars

C12_Witness ==
    /\ pc = "done"
    /\ arg.kind = "list"
    /\ Len(arg.val) = MaxBatch
    /\ vocab = Stoi
    /\ \E k \in 1..Len(padded) : \E j \in 1..Len(padded[k]) : padded[k][j] \notin DOMAIN vocab
    /\ \E k \in 1..Len(padded) : Len(padded[k]) > NumTokens(k)

\* C14: the numericalized sequence is as long as the padded token sequence, and
\* every position whose token is a key of the vocabulary holds that token's own
\* index; the index of <unk> stands only at positions of absent tokens (or of
\* the token <unk> itself).
C14_NumericalizationIsPositionWise ==
    \A k \in 1..Len(tokenized_sentences) :
        /\ Len(tokenized_sentences[k]) = Len(padded[k])
        /\ \A j \in 1..Len(padded[k]) :
              /\ padded[k][j] \in DOMAIN vocab => tokenized_sentences[k][j] = vocab[padded[k][j]]
              /\ tokenized_sentences[k][j] = vocab[UNK] =>
                    (padded[k][j] \notin DOMAIN vocab \/ padded[k][j] = UNK)

C14_Witness ==
    /\ \E k \in 1..Len(tokenized_sentences) :
          /\ padded[k] = << <<"a">>, <<"a", "a">>, PAD >>
          /\ tokenized_sentences[k] = <<vocab[<<"a">>], vocab[<<"a", "a">>], vocab[PAD]>>
    /\ \E k \in 1..Len(tokenized_sentences) :
          /\ padded[k][1] \notin DOMAIN vocab
          /\ tokenized_sentences[k][1] = vocab[UNK]

\* C15: in the per-sentence adapter every sentence tokenized so far has already
\* been scored (so the k-th invocation precedes the tokenization of sentence
\* k+1), the k-th invocation gets a batch of exactly one sequence, that of the
\* k-th sentence, and a returned call on N sentences has made N invocations and
\* has N rows; for N = 0 there is no invocation and no row.
C15_RiseScoresEachSentenceInTurn ==
    adapter = "rise" =>
        /\ Len(calls) = Len(padded)
        /\ \A c \in 1..Len(calls) :
              Len(calls[c]) = 1 /\ calls[c][1] = ExpectedSequence(sentences[c])
        /\ pc = "done" => (Len(calls) = Len(sentences) /\ Len(result) = Len(sentences))
        /\ (pc # "idle" /\ sentences = <<>>) => (calls = <<>> /\ result = <<>>)

C15_Witness ==
    /\ adapter = "rise"
    /\ pc = "done"
    /\ Len(sentences) = MaxBatch
    /\ Len(calls) = MaxBatch
    /\ calls[1] # calls[MaxBatch]

\* the per-sentence adapter returns from a call on the empty list
C15_WitnessEmpty ==
    adapter = "rise" /\ pc = "done" /\ arg = [kind |-> "list", val |-> <<>>] /\ result = <<>>

\* C17: the numericalized sequence of a sentence depends on that sentence alone:
\* it is the sequence a call on the sentence by itself produces, its length is
\* the larger of its token count and max_filter_size, and equal sentences at
\* different positions of a batch get equal sequences.
C17_PreprocessingIgnoresTheBatch ==
    \A k \in 1..Len(tokenized_sentences) :
        /\ tokenized_sentences[k] =
              Numericalize(PadTokens(tokenizer(sentences[k]), max_filter_size), vocab).val
        /\ Len(tokenized_sentences[k]) =
              (IF NumTokens(k) < max_filter_size THEN max_filter_size ELSE NumTokens(k))
        /\ \A l \in 1..Len(tokenized_sentences) :
              sentences[k] = sentences[l] => tokenized_sentences[k] = tokenized_sentences[l]

C17_Witness ==
    /\ Len(tokenized_sentences) = MaxBatch
    /\ Len(tokenized_sentences[1]) > Len(tokenized_sentences[MaxBatch])
    /\ arg.kind = "list"

\* C18: in the batch adapter all numericalized sequences handed to the scoring
\* function in one invocation have the same length.
C18_LimeBatchIsRectangular ==
    adapter = "lime" =>
        \A c \in 1..Len(calls) : \A k, l \in 1..Len(calls[c]) :
            Len(calls[c][k]) = Len(calls[c][l])

\* how the call in progress has ended
Outcome == [exc |-> exc, result |-> result]

\* C16 (as stated): for any batch of sentences a finished call of either
\* adapter ends as the batch adapter and as the per-sentence adapter end on the
\* same argument, vocabulary, max_filter_size and scoring function.
C16_AdaptersAgree ==
    pc \in {"done", "raised"} =>
        /\ Outcome = LimeCall(arg, max_filter_size, vocab, scorer)
        /\ Outcome = RiseCall(arg, max_filter_size, vocab, scorer)

\* C16 (amended): for any batch of at least one sentence a finished call of
\* either adapter returns the matrix that the batch adapter and the
\* per-sentence adapter return on the same argument, vocabulary,
\* max_filter_size and scoring function.
C16_AdaptersAgreeOnNonEmptyBatches ==
    (pc \in {"done", "raised"} /\ Len(sentences) >= 1) =>
        /\ pc = "done"
        /\ Outcome = LimeCall(arg, max_filter_size, vocab, scorer)
        /\ Outcome = RiseCall(arg, max_filter_size, vocab, scorer)

C16_Witness ==
    /\ pc = "done"
    /\ adapter = "lime"
    /\ Len(sentences) = MaxBatch
    /\ result[1] # result[MaxBatch]
    /\ result = RiseCall(arg, max_filter_size, vocab, scorer).result

\* the text from character offset loc (0-based) over len characters
TextAt(text, loc, len) == SubSeq(text, loc + 1, loc + len)

====
